---------------------------- MODULE Spec2Model ----------------------------
(***************************************************************************)
(* State-machine model of the experiment scripts and of the training       *)
(* dispatcher of the graph-transfer-learning repository:                   *)
(*                                                                         *)
(*   SpecTrain      src/src/gtl/training/__init__.py        train          *)
(*   SpecClustered  src/scripts/clustered_experiment.py     import, main   *)
(*   SpecSweep      src/scripts/experiments/sweep_airport.py and           *)
(*                  src/scripts/experiments/to-port/                       *)
(*                  sweep_triangle_detection.py             main, trials   *)
(*                                                                         *)
(* Python values are modelled as follows: a dict is a function whose       *)
(* DOMAIN is its key set, a list is a sequence, None is the string "None"  *)
(* where the other values are strings and the record NoneObj where they    *)
(* are objects.                                                            *)
(***************************************************************************)
EXTENDS Integers, Sequences, FiniteSets, TLC

VARIABLES
    \* ---- gtl.training.train ------------------------------------------
    t_pc,        \* position inside train: "entry","looked_up","invoked","returned","raised"
    t_model,     \* argument model
    t_graph,     \* argument graph
    t_kwargs,    \* argument **kwargs (a dict)
    t_func,      \* local func
    t_calls,     \* trainer invocations made so far (sequence of call records)
    t_value,     \* value produced by the trainer invocation
    t_return,    \* value returned by train, "None" before it returns
    t_exc,       \* exception raised by train, "None" if none
    \* ---- clustered_experiment.py -------------------------------------
    c_pc,        \* "import","exited","main","loop","in_run","done","crashed"
    c_files,     \* the edge-list files that exist on disk
    c_next,      \* index into LoadOrder of the next GRAPHS entry to build
    GRAPHS,      \* the entries of GRAPHS built so far: entry -> graph
    c_exit,      \* status passed to sys.exit, -1 while none
    trials,      \* main's shuffled list of (model, graph_type)
    c_ti,        \* index of the current trial (1-based)
    c_pi,        \* index of the current (src, target) permutation (1-based)
    c_i,         \* current value of i in range(N_RUNS)
    c_run,       \* config of the wandb run that is open, "None" if none
    c_events,    \* calls made to wandb: sequence of <<"init", name>> / <<"finish">>
    c_summary,   \* wandb.summary of the open run
    src_g,       \* _do_run's local src_g ("None" before _do_run)
    target_g,    \* _do_run's local target_g ("None" before _do_run)
    c_trained,   \* graphs the encoder trainer was called with
    c_exc,       \* uncaught exception that ended the script, "None" if none
    \* ---- sweep_airport.py / sweep_triangle_detection.py --------------
    s_script,    \* which script runs: "airport" or "triangle"
    s_pc,        \* position in main / the trial function
    argv_model,  \* positional argument model
    argv_sweep,  \* --sweep-id argument, "None" when absent
    sweep_config,\* the module-level sweep_config dict
    sweep_id,    \* main's local sweep_id
    sweep_calls, \* calls to wandb.sweep: the config each received
    agent_calls, \* calls to wandb.agent: [sweep_id, function]
    s_exit,      \* exit status of argparse's error exit, -1 while none
    s_trial,     \* number of trials the agent has started
    s_open,      \* whether a wandb run is open
    s_config,    \* wandb.config of the open run
    s_summary,   \* wandb.summary of the open run
    s_i,         \* loop counter i of the trial function
    results,     \* sweep_airport.train's list results
    acc,         \* sweep_triangle_detection.sweep_runner's accumulator acc
    s_written,   \* accuracies do_run has written during this trial, in order
    s_doruns,    \* number of do_run calls of this trial
    s_logs,      \* wandb.log calls of this trial: sequence of dicts
    s_finished   \* number of wandb.finish calls of this trial

train_vars == <<t_pc, t_model, t_graph, t_kwargs, t_func, t_calls, t_value,
                t_return, t_exc>>

clustered_vars == <<c_pc, c_files, c_next, GRAPHS, c_exit, trials, c_ti, c_pi,
                    c_i, c_run, c_events, c_summary, src_g, target_g,
                    c_trained, c_exc>>

sweep_vars == <<s_script, s_pc, argv_model, argv_sweep, sweep_config, sweep_id,
                sweep_calls, agent_calls, s_exit, s_trial, s_open, s_config,
                s_summary, s_i, results, acc, s_written, s_doruns, s_logs,
                s_finished>>

vars == <<train_vars, clustered_vars, sweep_vars>>

\* The empty dict.
EmptyDict == [k \in {} |-> "None"]

\* None, where the other values of the variable are objects.
NoneObj == [none |-> TRUE]

\* dict.get(key): the value, or None when the key is absent.
DictGet(d, k) == IF k \in DOMAIN d THEN d[k] ELSE NoneObj

\* {**a, **b}: the keys of both, b's value where both have the key.
DictMerge(a, b) ==
    [k \in DOMAIN a \cup DOMAIN b |-> IF k \in DOMAIN b THEN b[k] ELSE a[k]]

(***************************************************************************)
(*                        gtl.training.train                               *)
(***************************************************************************)

\* Inputs of train that are enumerated.
ModelArgs == {"graphsage", "egi", "triangle", "gcn", "EGI"}
GraphArgs == {"g1", "g2"}
KwargKeys == {"lr", "sampler_type"}
KwargValues == [lr |-> {"0.01", "0.1"}, sampler_type |-> {"egi", "triangle"}]
KwargsArgs ==
    UNION {{d \in [K -> {"0.01", "0.1", "egi", "triangle"}] :
              \A k \in K : d[k] \in KwargValues[k]} : K \in SUBSET KwargKeys}
Encoders == {"enc1", "enc2"}

\* functools.partial(func, **keywords); a plain function has no keywords.
Partial(func, keywords) == [func |-> func, keywords |-> keywords]

\* partial.__call__(graph, **kwargs): the wrapped function is called with
\* {**self.keywords, **kwargs}.
CallRecord(callable, graph, kwargs) ==
    [func |-> callable.func, graph |-> graph,
     kwargs |-> DictMerge(callable.keywords, kwargs)]

_model_functions ==
    [graphsage |-> Partial("train_graphsage_encoder", EmptyDict),
     egi       |-> Partial("train_egi_encoder", [sampler_type |-> "egi"]),
     triangle  |-> Partial("train_egi_encoder", [sampler_type |-> "triangle"])]

\* Names bound in the namespace of the package gtl.training.
TrainingNamespace ==
    {"Mapping", "Callable", "DGLGraph", "Tensor", "partial", "Graph",
     "egi", "_egi", "graphsage", "_graphsage", "_model_functions", "Model",
     "train"}

TrainInit ==
    /\ t_pc = "entry"
    /\ t_model \in ModelArgs
    /\ t_graph \in GraphArgs
    /\ t_kwargs \in KwargsArgs
    /\ t_func = NoneObj
    /\ t_calls = << >>
    /\ t_value = "None"
    /\ t_return = "None"
    /\ t_exc = "None"

TrainIdle ==
    /\ t_pc = "idle"
    /\ t_model = "None"
    /\ t_graph = "None"
    /\ t_kwargs = EmptyDict
    /\ t_func = NoneObj
    /\ t_calls = << >>
    /\ t_value = "None"
    /\ t_return = "None"
    /\ t_exc = "None"

\* Variant of LookupModel: _model_functions.get(model, <the GraphSAGE entry>),
\* a lookup that falls back to a default trainer.
LookupModelWithDefault(model) ==
    IF model \in DOMAIN _model_functions
    THEN _model_functions[model]
    ELSE _model_functions["graphsage"]

\* func = _model_functions.get(model)
LookupModel(model) == DictGet(_model_functions, model)

train_lookup ==
    /\ t_pc = "entry"
    /\ t_func' = LookupModel(t_model)
    /\ t_pc' = "looked_up"
    /\ UNCHANGED <<t_model, t_graph, t_kwargs, t_calls, t_value, t_return, t_exc>>
    /\ UNCHANGED <<clustered_vars, sweep_vars>>

\* if func is None: raise ValueError(...)
train_raise ==
    /\ t_pc = "looked_up"
    /\ t_func = NoneObj
    /\ t_exc' = "ValueError"
    /\ t_pc' = "raised"
    /\ UNCHANGED <<t_model, t_graph, t_kwargs, t_func, t_calls, t_value, t_return>>
    /\ UNCHANGED <<clustered_vars, sweep_vars>>

\* The trainer behind func runs and produces an encoder.
Trainer(call) == Encoders

\* func(graph, **kwargs)
train_invoke ==
    /\ t_pc = "looked_up"
    /\ t_func # NoneObj
    /\ LET call == CallRecord(t_func, t_graph, t_kwargs) IN
         /\ t_calls' = Append(t_calls, call)
         /\ t_value' \in Trainer(call)
    /\ t_pc' = "invoked"
    /\ UNCHANGED <<t_model, t_graph, t_kwargs, t_func, t_return, t_exc>>
    /\ UNCHANGED <<clustered_vars, sweep_vars>>

\* return func(graph, **kwargs)
train_return ==
    /\ t_pc = "invoked"
    /\ t_return' = t_value
    /\ t_pc' = "returned"
    /\ UNCHANGED <<t_model, t_graph, t_kwargs, t_func, t_calls, t_value, t_exc>>
    /\ UNCHANGED <<clustered_vars, sweep_vars>>

(***************************************************************************)
(*                      clustered_experiment.py                            *)
(***************************************************************************)

N_RUNS == 5

GRAPH_TYPES == <<"scalefree", "poisson">>
MODELS == <<"egi", "triangle">>
CLUSTERINGS == <<"clustered", "unclustered">>

\* The dict display GRAPHS = {...}: its entries in the order Python evaluates
\* them, each with the file its value is loaded from.
GraphsDisplay ==
    << [key |-> <<"scalefree", "clustered", "src">>,
        path |-> "powerlaw-clustered-100-0.edgelist"],
       [key |-> <<"scalefree", "clustered", "target">>,
        path |-> "powerlaw-clustered-100-1.edgelist"],
       [key |-> <<"scalefree", "unclustered", "src">>,
        path |-> "powerlaw-unclustered-100-0.edgelist"],
       [key |-> <<"scalefree", "unclustered", "target">>,
        path |-> "powerlaw-unclustered-100-1.edgelist"],
       [key |-> <<"poisson", "clustered", "src">>,
        path |-> "poisson-clustered-100-0.edgelist"],
       [key |-> <<"poisson", "clustered", "target">>,
        path |-> "poisson-clustered-100-1.edgelist"],
       [key |-> <<"poisson", "unclustered", "src">>,
        path |-> "poisson-unclustered-100-0.edgelist"],
       [key |-> <<"poisson", "unclustered", "target">>,
        path |-> "poisson-unclustered-100-1.edgelist"] >>

EdgelistFiles == {GraphsDisplay[k].path : k \in 1..Len(GraphsDisplay)}

\* Variant of IsFile: the existence check is dropped.
IsFileUnchecked(path) == TRUE

\* pathlib.Path(path).is_file()
IsFile(path) == path \in c_files

\* nx.read_edgelist(path) then dgl.from_networkx(g).to(device): the graph
\* whose edges are those listed in the file.
ReadGraph(path) == [edgelist |-> path]

\* itertools.product(a, b) as a list.
Product(a, b) ==
    [k \in 1..(Len(a) * Len(b)) |->
        <<a[((k - 1) \div Len(b)) + 1], b[((k - 1) % Len(b)) + 1]>>]

\* random.shuffle(l): every ordering of l is possible.
Shuffles(l) ==
    LET n == Len(l)
        perms == {p \in [1..n -> 1..n] : \A x \in 1..n : \E y \in 1..n : p[y] = x}
    IN  {[k \in 1..n |-> l[p[k]]] : p \in perms}

\* itertools.permutations(l, r=2) as a list.
Permutations2(l) ==
    LET n == Len(l) IN
    [k \in 1..(n * (n - 1)) |->
        LET a == ((k - 1) \div (n - 1)) + 1
            r == ((k - 1) % (n - 1)) + 1
            b == IF r >= a THEN r + 1 ELSE r
        IN  <<l[a], l[b]>>]

SrcTargetPairs == Permutations2(CLUSTERINGS)

ClusteredInit ==
    /\ c_pc = "import"
    /\ c_files \in SUBSET EdgelistFiles
    /\ c_next = 1
    /\ GRAPHS = EmptyDict
    /\ c_exit = -1
    /\ trials = << >>
    /\ c_ti = 0
    /\ c_pi = 0
    /\ c_i = 0
    /\ c_run = NoneObj
    /\ c_events = << >>
    /\ c_summary = EmptyDict
    /\ src_g = NoneObj
    /\ target_g = NoneObj
    /\ c_trained = << >>
    /\ c_exc = "None"

ClusteredIdle ==
    /\ c_pc = "idle"
    /\ c_files = {}
    /\ c_next = 1
    /\ GRAPHS = EmptyDict
    /\ c_exit = -1
    /\ trials = << >>
    /\ c_ti = 0
    /\ c_pi = 0
    /\ c_i = 0
    /\ c_run = NoneObj
    /\ c_events = << >>
    /\ c_summary = EmptyDict
    /\ src_g = NoneObj
    /\ target_g = NoneObj
    /\ c_trained = << >>
    /\ c_exc = "None"

\* One entry of the GRAPHS display: _load_edgelist(path) finds the file and
\* returns its graph.
_load_edgelist ==
    /\ c_pc = "import"
    /\ c_next <= Len(GraphsDisplay)
    /\ LET e == GraphsDisplay[c_next] IN
         /\ IsFile(e.path)
         /\ GRAPHS' = [k \in DOMAIN GRAPHS \cup {e.key} |->
                          IF k = e.key THEN ReadGraph(e.path) ELSE GRAPHS[k]]
    /\ c_next' = c_next + 1
    /\ UNCHANGED <<c_pc, c_files, c_exit, trials, c_ti, c_pi, c_i, c_run,
                   c_events, c_summary, src_g, target_g, c_trained, c_exc>>
    /\ UNCHANGED <<train_vars, sweep_vars>>

\* _load_edgelist(path) does not find the file: print, sys.exit(1).
_load_edgelist_exit ==
    /\ c_pc = "import"
    /\ c_next <= Len(GraphsDisplay)
    /\ ~IsFile(GraphsDisplay[c_next].path)
    /\ c_exit' = 1
    /\ c_pc' = "exited"
    /\ UNCHANGED <<c_files, c_next, GRAPHS, trials, c_ti, c_pi, c_i, c_run,
                   c_events, c_summary, src_g, target_g, c_trained, c_exc>>
    /\ UNCHANGED <<train_vars, sweep_vars>>

\* if __name__ == "__main__": main(), up to the head of the loops.
main_enter ==
    /\ c_pc = "import"
    /\ c_next > Len(GraphsDisplay)
    /\ trials' \in Shuffles(Product(MODELS, GRAPH_TYPES))
    /\ c_ti' = 1
    /\ c_pi' = 1
    /\ c_i' = 0
    /\ c_pc' = "loop"
    /\ UNCHANGED <<c_files, c_next, GRAPHS, c_exit, c_run, c_events, c_summary,
                   src_g, target_g, c_trained, c_exc>>
    /\ UNCHANGED <<train_vars, sweep_vars>>

\* The parameters of the iteration the three nested loops are at.
RunConfig ==
    [model |-> trials[c_ti][1], graph_type |-> trials[c_ti][2],
     src |-> SrcTargetPairs[c_pi][1], target |-> SrcTargetPairs[c_pi][2]]

\* f"{model}-{graph_type}-{src}-{target}-{i}"
RunName(cfg, i) == <<cfg.model, cfg.graph_type, cfg.src, cfg.target, i>>

\* wandb.init(project=..., name=..., config={...})
main_wandb_init ==
    /\ c_pc = "loop"
    /\ c_run' = RunConfig
    /\ c_events' = Append(c_events, [op |-> "init", name |-> RunName(RunConfig, c_i)])
    /\ c_summary' = EmptyDict
    /\ c_pc' = "in_run"
    /\ UNCHANGED <<c_files, c_next, GRAPHS, c_exit, trials, c_ti, c_pi, c_i,
                   src_g, target_g, c_trained, c_exc>>
    /\ UNCHANGED <<train_vars, sweep_vars>>

\* The classifier accuracy of the embeddings that `encoder` gives on graph g.
Score(encoder, g) == [encoder |-> encoder, on |-> g]

\* _do_run(model, graph_type, src, target): the locals it binds, the graphs
\* it trains on, what it leaves in wandb.summary and the exception it raises.
_do_run(model, graph_type, src, target) ==
    LET s_g == GRAPHS[<<graph_type, src, "src">>]
        t_g == GRAPHS[<<graph_type, src, "target">>]
    IN  IF "train_egi_encoder" \notin TrainingNamespace
        THEN [src_g |-> s_g, target_g |-> t_g, trained |-> << >>,
              summary |-> c_summary, exc |-> "AttributeError"]
        ELSE LET encoder == [sampler |-> model, trained_on |-> s_g] IN
             [src_g |-> s_g, target_g |-> t_g, trained |-> <<s_g>>,
              summary |-> ("source-accuracy" :> Score(encoder, s_g))
                          @@ ("target-accuracy" :> Score(encoder, t_g)),
              exc |-> "None"]

\* Whether the loops end with the current iteration, and the indices of the
\* next iteration otherwise.
LastIteration ==
    /\ c_i = N_RUNS - 1
    /\ c_pi = Len(SrcTargetPairs)
    /\ c_ti = Len(trials)

\* _do_run(model, graph_type, src, target); wandb.finish(); next iteration.
\* An exception of _do_run is not caught: it ends main.
main_do_run ==
    /\ c_pc = "in_run"
    /\ LET r == _do_run(c_run.model, c_run.graph_type, c_run.src, c_run.target) IN
         /\ src_g' = r.src_g
         /\ target_g' = r.target_g
         /\ c_trained' = c_trained \o r.trained
         /\ c_summary' = r.summary
         /\ c_exc' = r.exc
         /\ IF r.exc # "None"
            THEN /\ c_pc' = "crashed"
                 /\ UNCHANGED <<c_run, c_events, c_ti, c_pi, c_i>>
            ELSE /\ c_events' = Append(c_events,
                                   [op |-> "finish", name |-> RunName(c_run, c_i)])
                 /\ c_run' = NoneObj
                 /\ c_pc' = IF LastIteration THEN "done" ELSE "loop"
                 /\ c_i' = IF c_i < N_RUNS - 1 THEN c_i + 1 ELSE 0
                 /\ c_pi' = IF c_i < N_RUNS - 1 THEN c_pi
                            ELSE IF c_pi < Len(SrcTargetPairs) THEN c_pi + 1
                            ELSE 1
                 /\ c_ti' = IF c_i = N_RUNS - 1 /\ c_pi = Len(SrcTargetPairs)
                               /\ ~LastIteration
                            THEN c_ti + 1 ELSE c_ti
    /\ UNCHANGED <<c_files, c_next, GRAPHS, c_exit, trials>>
    /\ UNCHANGED <<train_vars, sweep_vars>>

(***************************************************************************)
(*        sweep_airport.py and to-port/sweep_triangle_detection.py         *)
(***************************************************************************)

\* Bounds of the model: the trials the agent runs before it returns, and the
\* accuracies a run can have (numerators 0..MaxAcc of a common denominator).
MaxTrials == 2
MaxAcc == 2

ArgvModels == {"egi", "triangle", "graphsage", "gcn"}
ArgvSweepIds == {"None", "given1", "given2"}
NewSweepIds == {"new1", "new2"}
Accuracies == 0..MaxAcc

\* argparse: choices=["egi", "triangle", "graphsage"]
ModelChoices == {"egi", "triangle", "graphsage"}

\* sweep_airport.sweep_config
AirportSweepConfig ==
    [project |-> "Airport hyperparams sweep",
     entity  |-> "sta-graph-transfer-learning",
     metric  |-> [goal |-> "maximize", name |-> "avg_classification_accuracy"],
     method  |-> "bayes",
     parameters |->
        [n_runs        |-> [value |-> 5],
         batch_size    |-> [values |-> <<16, 32, 64>>],
         hidden_layers |-> [min |-> 16, max |-> 128],
         lr            |-> [min |-> "0.0001", max |-> "0.1"],
         k             |-> [min |-> 1, max |-> 5],
         patience      |-> [value |-> 20],
         min_delta     |-> [value |-> "0.01"],
         epochs        |-> [value |-> 200]]]

\* sweep_triangle_detection.sweep_config
TriangleSweepConfig ==
    [metric  |-> [goal |-> "maximize", name |-> "avg_target_accuracy"],
     method  |-> "bayes",
     parameters |->
        [batch_size    |-> [values |-> <<16, 32, 64>>],
         hidden_layers |-> [min |-> 16, max |-> 128],
         lr            |-> [min |-> "0.0001", max |-> "0.1"],
         k             |-> [min |-> 1, max |-> 5],
         sweep_n_runs  |-> [value |-> 4],
         source_core_size      |-> [value |-> 75],
         target_core_size      |-> [value |-> 75],
         source_periphery_size |-> [value |-> 500],
         target_periphery_size |-> [value |-> 500],
         patience      |-> [value |-> 10],
         min_delta     |-> [value |-> "0.01"],
         epochs        |-> [value |-> 100]]]

InitialSweepConfig(script) ==
    IF script = "airport" THEN AirportSweepConfig ELSE TriangleSweepConfig

\* sweep_config.update({"name": f"{model} ({current_date_time})"})
\* sweep_config["parameters"].update({"model": {"value": model}})
AddModelAndName(config, model) ==
    LET named == DictMerge(config, [name |-> <<model, "current_date_time">>])
    IN  [named EXCEPT !["parameters"] =
            DictMerge(@, [model |-> [value |-> model]])]

\* wandb.config of a trial: the sweep's parameters that are fixed by "value"
\* (the swept ones get a value the trial function does not read).  A sweep
\* joined by --sweep-id is taken to have been created from this sweep_config.
TrialConfig(config) ==
    LET p == config.parameters IN
    [k \in {q \in DOMAIN p : "value" \in DOMAIN p[q]} |-> p[k].value]

\* sum(results)
RECURSIVE Sum(_)
Sum(seq) == IF seq = << >> THEN 0 ELSE seq[1] + Sum(Tail(seq))

\* a / b (true division), kept exact as the fraction a/b.
TrueDiv(a, b) == [num |-> a, den |-> b]

SweepInit ==
    /\ s_script \in {"airport", "triangle"}
    /\ s_pc = "start"
    /\ argv_model \in ArgvModels
    /\ argv_sweep \in (IF s_script = "airport" THEN {"None"} ELSE ArgvSweepIds)
    /\ sweep_config = InitialSweepConfig(s_script)
    /\ sweep_id = "None"
    /\ sweep_calls = << >>
    /\ agent_calls = << >>
    /\ s_exit = -1
    /\ s_trial = 0
    /\ s_open = FALSE
    /\ s_config = EmptyDict
    /\ s_summary = EmptyDict
    /\ s_i = 0
    /\ results = << >>
    /\ acc = 0
    /\ s_written = << >>
    /\ s_doruns = 0
    /\ s_logs = << >>
    /\ s_finished = 0

SweepIdle ==
    /\ s_script = "None"
    /\ s_pc = "idle"
    /\ argv_model = "None"
    /\ argv_sweep = "None"
    /\ sweep_config = EmptyDict
    /\ sweep_id = "None"
    /\ sweep_calls = << >>
    /\ agent_calls = << >>
    /\ s_exit = -1
    /\ s_trial = 0
    /\ s_open = FALSE
    /\ s_config = EmptyDict
    /\ s_summary = EmptyDict
    /\ s_i = 0
    /\ results = << >>
    /\ acc = 0
    /\ s_written = << >>
    /\ s_doruns = 0
    /\ s_logs = << >>
    /\ s_finished = 0

trial_vars == <<s_trial, s_open, s_config, s_summary, s_i, results, acc,
                s_written, s_doruns, s_logs, s_finished>>

\* ------------------------------ main ----------------------------------

\* parser.parse_args() rejects a model outside the choices: exit status 2.
parse_args_error ==
    /\ s_pc = "start"
    /\ argv_model \notin ModelChoices
    /\ s_exit' = 2
    /\ s_pc' = "exited"
    /\ UNCHANGED <<s_script, argv_model, argv_sweep, sweep_config, sweep_id,
                   sweep_calls, agent_calls, trial_vars>>
    /\ UNCHANGED <<train_vars, clustered_vars>>

\* sweep_airport.main: model = parser.parse_args().model
airport_parse_args ==
    /\ s_script = "airport"
    /\ s_pc = "start"
    /\ argv_model \in ModelChoices
    /\ s_pc' = "parsed"
    /\ UNCHANGED <<s_script, argv_model, argv_sweep, sweep_config, sweep_id,
                   sweep_calls, agent_calls, s_exit, trial_vars>>
    /\ UNCHANGED <<train_vars, clustered_vars>>

\* sweep_airport.main: add model and name to sweep
airport_update_config ==
    /\ s_script = "airport"
    /\ s_pc = "parsed"
    /\ sweep_config' = AddModelAndName(sweep_config, argv_model)
    /\ s_pc' = "updated"
    /\ UNCHANGED <<s_script, argv_model, argv_sweep, sweep_id, sweep_calls,
                   agent_calls, s_exit, trial_vars>>
    /\ UNCHANGED <<train_vars, clustered_vars>>

\* sweep_airport.main: sweep_id = wandb.sweep(sweep=sweep_config)
airport_wandb_sweep ==
    /\ s_script = "airport"
    /\ s_pc = "updated"
    /\ \E id \in NewSweepIds :
         /\ sweep_calls' = Append(sweep_calls,
                              [sweep |-> sweep_config, project |-> "None",
                               entity |-> "None", returned |-> id])
         /\ sweep_id' = id
    /\ s_pc' = "ready"
    /\ UNCHANGED <<s_script, argv_model, argv_sweep, sweep_config, agent_calls,
                   s_exit, trial_vars>>
    /\ UNCHANGED <<train_vars, clustered_vars>>

\* sweep_airport.main: wandb.agent(sweep_id=sweep_id, function=train)
airport_wandb_agent ==
    /\ s_script = "airport"
    /\ s_pc = "ready"
    /\ agent_calls' = Append(agent_calls, [sweep_id |-> sweep_id, function |-> "train"])
    /\ s_pc' = "agent"
    /\ UNCHANGED <<s_script, argv_model, argv_sweep, sweep_config, sweep_id,
                   sweep_calls, s_exit, trial_vars>>
    /\ UNCHANGED <<train_vars, clustered_vars>>

\* sweep_triangle_detection.main: args = parser.parse_args();
\* model = args.model; sweep_id = args.sweep_id
triangle_parse_args ==
    /\ s_script = "triangle"
    /\ s_pc = "start"
    /\ argv_model \in ModelChoices
    /\ sweep_id' = argv_sweep
    /\ s_pc' = "parsed"
    /\ UNCHANGED <<s_script, argv_model, argv_sweep, sweep_config, sweep_calls,
                   agent_calls, s_exit, trial_vars>>
    /\ UNCHANGED <<train_vars, clustered_vars>>

\* Variant of NeedsNewSweep: the given id is ignored.
NeedsNewSweepAlways(id) == TRUE

\* sweep_triangle_detection.main: if sweep_id is None
NeedsNewSweep(id) == id = "None"

\* sweep_triangle_detection.main: add model and name to sweep
triangle_update_config ==
    /\ s_script = "triangle"
    /\ s_pc = "parsed"
    /\ NeedsNewSweep(sweep_id)
    /\ sweep_config' = AddModelAndName(sweep_config, argv_model)
    /\ s_pc' = "updated"
    /\ UNCHANGED <<s_script, argv_model, argv_sweep, sweep_id, sweep_calls,
                   agent_calls, s_exit, trial_vars>>
    /\ UNCHANGED <<train_vars, clustered_vars>>

\* sweep_triangle_detection.main:
\* sweep_id = wandb.sweep(sweep=sweep_config, project=project, entity=entity)
triangle_wandb_sweep ==
    /\ s_script = "triangle"
    /\ s_pc = "updated"
    /\ \E id \in NewSweepIds :
         /\ sweep_calls' = Append(sweep_calls,
                              [sweep |-> sweep_config, project |-> "Triangle Detection",
                               entity |-> "sta-graph-transfer-learning",
                               returned |-> id])
         /\ sweep_id' = id
    /\ s_pc' = "ready"
    /\ UNCHANGED <<s_script, argv_model, argv_sweep, sweep_config, agent_calls,
                   s_exit, trial_vars>>
    /\ UNCHANGED <<train_vars, clustered_vars>>

\* sweep_triangle_detection.main:
\* wandb.agent(sweep_id=sweep_id, function=sweep_runner)
triangle_wandb_agent ==
    /\ s_script = "triangle"
    /\ \/ s_pc = "ready"
       \/ s_pc = "parsed" /\ ~NeedsNewSweep(sweep_id)
    /\ agent_calls' = Append(agent_calls,
                         [sweep_id |-> sweep_id, function |-> "sweep_runner"])
    /\ s_pc' = "agent"
    /\ UNCHANGED <<s_script, argv_model, argv_sweep, sweep_config, sweep_id,
                   sweep_calls, s_exit, trial_vars>>
    /\ UNCHANGED <<train_vars, clustered_vars>>

\* wandb.agent returns once the sweep has no further trial for this agent.
agent_return ==
    /\ s_pc = "agent"
    /\ s_pc' = "done"
    /\ UNCHANGED <<s_script, argv_model, argv_sweep, sweep_config, sweep_id,
                   sweep_calls, agent_calls, s_exit, trial_vars>>
    /\ UNCHANGED <<train_vars, clustered_vars>>

main_vars == <<s_script, argv_model, argv_sweep, sweep_config, sweep_id,
               sweep_calls, agent_calls, s_exit>>

\* ------------------------- the trial functions ------------------------

\* do_run() (airport_direct_transfer / triangle_detection_task): performs
\* one training-and-transfer run and leaves its accuracy a in the summary
\* of the open run under `key`.
do_run(summary, key, a) == DictMerge(summary, key :> a)

\* wandb.init(...) of a trial function: a fresh run whose config carries the
\* values of the sweep.
TrialStart ==
    /\ s_pc = "agent"
    /\ s_trial < MaxTrials
    /\ s_trial' = s_trial + 1
    /\ s_open' = TRUE
    /\ s_config' = TrialConfig(sweep_config)
    /\ s_summary' = EmptyDict
    /\ s_i' = 0
    /\ s_written' = << >>
    /\ s_doruns' = 0
    /\ s_logs' = << >>
    /\ s_finished' = 0

\* sweep_airport.train: wandb.init(); results = []
train_init ==
    /\ s_script = "airport"
    /\ TrialStart
    /\ results' = << >>
    /\ s_pc' = "trial_loop"
    /\ UNCHANGED <<main_vars, acc>>
    /\ UNCHANGED <<train_vars, clustered_vars>>

\* Variant of AirportLoopContinues: range(n_runs + 1), one run too many.
AirportLoopOneMore == s_i < s_config["n_runs"] + 1

\* for i in range(wandb.config["n_runs"]): the loop goes on
AirportLoopContinues == s_i < s_config["n_runs"]

\* sweep_airport.train, one iteration:
\* do_run(); results.append(wandb.summary["target-classifier-accuracy"])
train_do_run ==
    /\ s_script = "airport"
    /\ s_pc = "trial_loop"
    /\ AirportLoopContinues
    /\ \E a \in Accuracies :
         /\ s_summary' = do_run(s_summary, "target-classifier-accuracy", a)
         /\ s_written' = Append(s_written, a)
    /\ s_doruns' = s_doruns + 1
    /\ results' = Append(results, s_summary'["target-classifier-accuracy"])
    /\ s_i' = s_i + 1
    /\ UNCHANGED <<main_vars, s_pc, s_trial, s_open, s_config, acc, s_logs,
                   s_finished>>
    /\ UNCHANGED <<train_vars, clustered_vars>>

\* {"avg_classification_accuracy": sum(results) / len(results)}
AirportLogEntry(res) ==
    [key |-> "avg_classification_accuracy",
     value |-> TrueDiv(Sum(res), Len(res))]

\* sweep_airport.train: wandb.log({...})
train_log ==
    /\ s_script = "airport"
    /\ s_pc = "trial_loop"
    /\ ~AirportLoopContinues
    /\ s_logs' = Append(s_logs, AirportLogEntry(results))
    /\ s_pc' = "trial_logged"
    /\ UNCHANGED <<main_vars, s_trial, s_open, s_config, s_summary, s_i,
                   results, acc, s_written, s_doruns, s_finished>>
    /\ UNCHANGED <<train_vars, clustered_vars>>

\* sweep_airport.train: wandb.finish()
train_finish ==
    /\ s_script = "airport"
    /\ s_pc = "trial_logged"
    /\ s_open' = FALSE
    /\ s_finished' = s_finished + 1
    /\ s_pc' = "agent"
    /\ UNCHANGED <<main_vars, s_trial, s_config, s_summary, s_i, results, acc,
                   s_written, s_doruns, s_logs>>
    /\ UNCHANGED <<train_vars, clustered_vars>>

\* sweep_triangle_detection.sweep_runner: wandb.init(config=default_config);
\* acc = 0
sweep_runner_init ==
    /\ s_script = "triangle"
    /\ TrialStart
    /\ acc' = 0
    /\ s_pc' = "trial_loop"
    /\ UNCHANGED <<main_vars, results>>
    /\ UNCHANGED <<train_vars, clustered_vars>>

\* for i in range(wandb.config.sweep_n_runs): the loop goes on
TriangleLoopContinues == s_i < s_config["sweep_n_runs"]

\* sweep_triangle_detection.sweep_runner, one iteration:
\* do_run(); acc += wandb.summary["target-accuracy"]
sweep_runner_do_run ==
    /\ s_script = "triangle"
    /\ s_pc = "trial_loop"
    /\ TriangleLoopContinues
    /\ \E a \in Accuracies :
         /\ s_summary' = do_run(s_summary, "target-accuracy", a)
         /\ s_written' = Append(s_written, a)
    /\ s_doruns' = s_doruns + 1
    /\ acc' = acc + s_summary'["target-accuracy"]
    /\ s_i' = s_i + 1
    /\ UNCHANGED <<main_vars, s_pc, s_trial, s_open, s_config, results, s_logs,
                   s_finished>>
    /\ UNCHANGED <<train_vars, clustered_vars>>

\* {"avg_target_accuracy": acc / wandb.config.sweep_n_runs}
TriangleLogEntry(total, config) ==
    [key |-> "avg_target_accuracy",
     value |-> TrueDiv(total, config["sweep_n_runs"])]

\* sweep_triangle_detection.sweep_runner: wandb.log({...})
sweep_runner_log ==
    /\ s_script = "triangle"
    /\ s_pc = "trial_loop"
    /\ ~TriangleLoopContinues
    /\ s_logs' = Append(s_logs, TriangleLogEntry(acc, s_config))
    /\ s_pc' = "trial_logged"
    /\ UNCHANGED <<main_vars, s_trial, s_open, s_config, s_summary, s_i,
                   results, acc, s_written, s_doruns, s_finished>>
    /\ UNCHANGED <<train_vars, clustered_vars>>

\* sweep_triangle_detection.sweep_runner: wandb.finish()
sweep_runner_finish ==
    /\ s_script = "triangle"
    /\ s_pc = "trial_logged"
    /\ s_open' = FALSE
    /\ s_finished' = s_finished + 1
    /\ s_pc' = "agent"
    /\ UNCHANGED <<main_vars, s_trial, s_config, s_summary, s_i, results, acc,
                   s_written, s_doruns, s_logs>>
    /\ UNCHANGED <<train_vars, clustered_vars>>

(***************************************************************************)
(*                          Specifications                                 *)
(***************************************************************************)

TrainSpecInit == TrainInit /\ ClusteredIdle /\ SweepIdle

TrainNext ==
    \/ train_lookup
    \/ train_raise
    \/ train_invoke
    \/ train_return

SpecTrain == TrainSpecInit /\ [][TrainNext]_vars

ClusteredSpecInit == TrainIdle /\ ClusteredInit /\ SweepIdle

ClusteredNext ==
    \/ _load_edgelist
    \/ _load_edgelist_exit
    \/ main_enter
    \/ main_wandb_init
    \/ main_do_run

SpecClustered == ClusteredSpecInit /\ [][ClusteredNext]_vars

SweepSpecInit == TrainIdle /\ ClusteredIdle /\ SweepInit

SweepNext ==
    \/ parse_args_error
    \/ airport_parse_args
    \/ airport_update_config
    \/ airport_wandb_sweep
    \/ airport_wandb_agent
    \/ triangle_parse_args
    \/ triangle_update_config
    \/ triangle_wandb_sweep
    \/ triangle_wandb_agent
    \/ agent_return
    \/ train_init
    \/ train_do_run
    \/ train_log
    \/ train_finish
    \/ sweep_runner_init
    \/ sweep_runner_do_run
    \/ sweep_runner_log
    \/ sweep_runner_finish

SpecSweep == SweepSpecInit /\ [][SweepNext]_vars

(***************************************************************************)
(*                     Properties of gtl.training.train                    *)
(***************************************************************************)

KnownModels == {"graphsage", "egi", "triangle"}

\* C1: train called with a model name that is none of "graphsage", "egi",
\* "triangle" raises ValueError, and no trainer is invoked: it never reaches
\* an invocation or a return, its only continuation after the lookup is the
\* raise, and the exception it ends with is ValueError.
C1_UnknownModelRaises ==
    (t_pc # "idle" /\ t_model \notin KnownModels) =>
        /\ t_calls = << >>
        /\ t_pc \in {"entry", "looked_up", "raised"}
        /\ t_return = "None"
        /\ (t_pc = "looked_up" => ENABLED train_raise /\ ~ENABLED train_invoke)
        /\ (t_pc = "raised" => t_exc = "ValueError")

C1_Witness ==
    /\ t_pc = "raised"
    /\ t_model = "gcn"
    /\ t_exc = "ValueError"
    /\ t_calls = << >>

\* The trainer and the bound sampler_type that the claim C2 names for a model.
ExpectedTrainer(model) ==
    IF model = "graphsage" THEN "train_graphsage_encoder" ELSE "train_egi_encoder"

ExpectedKwargs(model, kwargs) ==
    IF model = "graphsage" THEN kwargs
    ELSE [k \in DOMAIN kwargs \cup {"sampler_type"} |->
             IF k = "sampler_type" THEN model ELSE kwargs[k]]

\* C2: when train returns, exactly one trainer has been called exactly once:
\* the GraphSAGE trainer for "graphsage", the EGI trainer with sampler_type
\* "egi" for "egi" and with sampler_type "triangle" for "triangle", with the
\* given graph and the given keyword arguments, and train returns the value
\* that call produced.
C2_TrainDispatches ==
    t_pc = "returned" =>
        /\ t_model \in KnownModels
        /\ Len(t_calls) = 1
        /\ t_calls[1].func = ExpectedTrainer(t_model)
        /\ t_calls[1].graph = t_graph
        /\ \A k \in DOMAIN t_kwargs :
              k \in DOMAIN t_calls[1].kwargs /\ t_calls[1].kwargs[k] = t_kwargs[k]
        /\ t_calls[1].kwargs = ExpectedKwargs(t_model, t_kwargs)
        /\ t_return = t_value

(***************************************************************************)
(*                   Properties of clustered_experiment.py                 *)
(***************************************************************************)

\* The file a (graph_type, clustering kind, src/target) entry belongs to.
OwnFile(graph_type, kind, role) ==
    (IF graph_type = "scalefree" THEN "powerlaw" ELSE "poisson")
        \o "-" \o kind \o "-100-" \o (IF role = "src" THEN "0" ELSE "1")
        \o ".edgelist"

\* The name given to the most recent wandb.init.
LastInitName ==
    LET k == CHOOSE j \in 1..Len(c_events) :
                 /\ c_events[j].op = "init"
                 /\ \A m \in (j + 1)..Len(c_events) : c_events[m].op # "init"
    IN  c_events[k].name

\* C3: once _do_run has acted for a run started with (model, graph_type, src,
\* target), the encoder was trained on the source graph of kind src, and
\* "target-accuracy" was computed on the target graph of kind target, the
\* kind the run's config records as "target", which differs from src.
C3_TargetGraphIsTarget ==
    src_g # NoneObj =>
        LET n == LastInitName IN
        /\ n[3] # n[4]
        /\ src_g = [edgelist |-> OwnFile(n[2], n[3], "src")]
        /\ c_trained # << >>
        /\ c_trained[Len(c_trained)] = [edgelist |-> OwnFile(n[2], n[3], "src")]
        /\ target_g = [edgelist |-> OwnFile(n[2], n[4], "target")]
        /\ "target-accuracy" \in DOMAIN c_summary
        /\ c_summary["target-accuracy"].on = [edgelist |-> OwnFile(n[2], n[4], "target")]

\* The names of the runs main is to execute.
AllRunNames ==
    {<<m, g, p[1], p[2], i>> :
        m \in {"egi", "triangle"}, g \in {"scalefree", "poisson"},
        p \in {<<"clustered", "unclustered">>, <<"unclustered", "clustered">>},
        i \in 0..4}

\* C6: runs never overlap (the calls to wandb alternate init, finish, each
\* finish closing the run just initialised), and when main has ended, by
\* returning or by an exception, it has executed exactly 40 runs: every
\* combination of model, graph_type and ordered pair of distinct clustering
\* kinds exactly once for each run index 0..4, each of them finished.
C6_FortyRuns ==
    /\ \A k \in 1..Len(c_events) :
          /\ c_events[k].op = (IF k % 2 = 1 THEN "init" ELSE "finish")
          /\ (k % 2 = 0 => c_events[k].name = c_events[k - 1].name)
    /\ c_pc \in {"done", "crashed"} =>
          /\ Len(c_events) = 2 * 40
          /\ \A n \in AllRunNames :
                Cardinality({k \in 1..Len(c_events) :
                    c_events[k].op = "init" /\ c_events[k].name = n}) = 1
          /\ c_run = NoneObj
          /\ c_exc = "None"

\* C7: if an edge-list file is missing, the script exits with status 1 at
\* the first missing file of the GRAPHS display: only the entries before it
\* are ever built, main is never entered and no run is initialised or
\* logged; the script exits in no other case; and if all files exist, once
\* the display is complete every entry holds the graph of its own file.
C7_MissingFileExits ==
    LET n == Len(GraphsDisplay)
        missing == {k \in 1..n : GraphsDisplay[k].path \notin c_files}
        first == CHOOSE k \in missing : \A j \in missing : k <= j
    IN  c_pc # "idle" =>
        /\ missing # {} =>
              /\ c_next <= first
              /\ DOMAIN GRAPHS = {GraphsDisplay[k].key : k \in 1..(c_next - 1)}
              /\ c_pc \in {"import", "exited"}
              /\ c_events = << >>
              /\ c_run = NoneObj
              /\ c_summary = EmptyDict
              /\ (c_pc = "exited" => c_next = first /\ c_exit = 1)
              /\ (c_pc = "import" /\ c_next = first =>
                     ENABLED _load_edgelist_exit /\ ~ENABLED _load_edgelist)
        /\ (c_exit # -1 \/ c_pc = "exited") => (missing # {} /\ c_exit = 1)
        /\ (missing = {} /\ c_next > n) =>
              /\ DOMAIN GRAPHS =
                    {<<g, k, r>> : g \in {"scalefree", "poisson"},
                                   k \in {"clustered", "unclustered"},
                                   r \in {"src", "target"}}
              /\ \A key \in DOMAIN GRAPHS :
                    GRAPHS[key] = [edgelist |-> OwnFile(key[1], key[2], key[3])]

C7_Witness ==
    /\ c_pc = "exited"
    /\ c_exit = 1
    /\ c_next = 3
    /\ "powerlaw-unclustered-100-0.edgelist" \notin c_files
    /\ "poisson-clustered-100-1.edgelist" \notin c_files
    /\ DOMAIN GRAPHS = {<<"scalefree", "clustered", "src">>,
                        <<"scalefree", "clustered", "target">>}
    /\ c_events = << >>

(***************************************************************************)
(*                     Properties of the sweep scripts                     *)
(***************************************************************************)

\* The parameter of the sweep configuration that holds the run count.
RunCountKey == IF s_script = "airport" THEN "n_runs" ELSE "sweep_n_runs"

\* C4: a trial calls do_run exactly N times, N the run count of the sweep
\* configuration; after every do_run it has read the accuracy that do_run
\* left in the summary; and it logs exactly once, while its run is still
\* open, the arithmetic mean of those N accuracies under the metric name
\* that the sweep configuration declares, and then finishes the run.
C4_TrialLogsMean ==
    s_script \in {"airport", "triangle"} =>
    LET N == sweep_config.parameters[RunCountKey].value
        metric == sweep_config.metric.name
        logged == /\ Len(s_logs) = 1
                  /\ s_logs[1].key = metric
                  /\ s_logs[1].value = [num |-> Sum(s_written), den |-> N]
                  /\ s_doruns = N
                  /\ Len(s_written) = N
    IN  /\ s_pc = "trial_loop" =>
              /\ s_open /\ s_finished = 0 /\ s_logs = << >>
              /\ s_doruns = s_i /\ Len(s_written) = s_i /\ s_i <= N
              /\ (s_script = "airport" => results = s_written)
              /\ (s_script = "triangle" => acc = Sum(s_written))
        /\ s_pc = "trial_logged" => (s_open /\ s_finished = 0 /\ logged)
        /\ (s_pc \in {"agent", "done"} /\ s_trial > 0) =>
              (~s_open /\ s_finished = 1 /\ logged)

C4_Witness ==
    /\ s_script = "airport"
    /\ s_pc = "agent"
    /\ s_trial = 2
    /\ s_finished = 1
    /\ s_written = <<2, 0, 1, 2, 1>>
    /\ s_logs = <<[key |-> "avg_classification_accuracy",
                   value |-> [num |-> 6, den |-> 5]]>>

\* C5: in sweep_triangle_detection.main a sweep is created if and only if
\* no --sweep-id is given.  Given: wandb.sweep is never called, sweep_config
\* stays as written, the agent is started with the given id.  Not given:
\* wandb.sweep is called at most once, with a sweep_config that already has
\* the name and the fixed "model" parameter, and the agent is started with
\* the id that call returned.  The agent is started at most once, never
\* before the sweep creation, and exactly once when main got that far.
C5_SweepIffNoId ==
    s_script = "triangle" =>
        /\ Len(agent_calls) <= 1
        /\ Len(sweep_calls) <= 1
        /\ (s_pc \in {"agent", "trial_loop", "trial_logged", "done"}
               <=> Len(agent_calls) = 1)
        /\ \A k \in 1..Len(agent_calls) : agent_calls[k].function = "sweep_runner"
        /\ argv_sweep # "None" =>
              /\ sweep_calls = << >>
              /\ sweep_config = TriangleSweepConfig
              /\ \A k \in 1..Len(agent_calls) : agent_calls[k].sweep_id = argv_sweep
        /\ argv_sweep = "None" =>
              /\ \A k \in 1..Len(sweep_calls) :
                    /\ "name" \in DOMAIN sweep_calls[k].sweep
                    /\ sweep_calls[k].sweep["name"][1] = argv_model
                    /\ "model" \in DOMAIN sweep_calls[k].sweep["parameters"]
                    /\ sweep_calls[k].sweep["parameters"]["model"] = [value |-> argv_model]
              /\ \A k \in 1..Len(agent_calls) :
                    /\ Len(sweep_calls) = 1
                    /\ agent_calls[k].sweep_id = sweep_calls[1].returned

C5_Witness ==
    /\ s_script = "triangle"
    /\ argv_sweep = "given1"
    /\ s_pc = "trial_logged"
    /\ agent_calls = <<[sweep_id |-> "given1", function |-> "sweep_runner"]>>
    /\ sweep_calls = << >>

=============================================================================
